---- MODULE Spec2Model ----
(***************************************************************************)
(* Model of the RPN calculator pipeline of calculator.py and main.py:      *)
(* tokenize -> prefixing -> balancing -> shunting -> evaluate, over the    *)
(* exact rational Number type (class Fraction).                            *)
(*                                                                         *)
(* Text is a sequence of one-character strings.  A Python list is a        *)
(* sequence; Python index k is position k + 1 here.  A raised exception is *)
(* a record [kind, msg, pos] whose kind is the Python exception class.     *)
(***************************************************************************)
EXTENDS Integers, Sequences, FiniteSets, TLC

(* ---- bounds of the explored inputs ---- *)
MaxExprLen == 3
MaxTokLen == 3
MaxNum == 3

VARIABLES
    expr,     \* the expression text handed to main.evaluator
    tokens,   \* the token list of the current call (mutated in place / rebound)
    answer,   \* the Number returned by evaluate, or None
    error,    \* the exception raised by the last function, or NoError
    pc,       \* the function to run next, "done" or "failed"
    entry,    \* the function the caller invoked ("evaluator" = whole pipeline)
    given,    \* the argument of the most recent call, as it was on entry
    called    \* the most recent function that ran

vars == <<expr, tokens, answer, error, pc, entry, given, called>>

None == [type |-> "None"]
NoError == [kind |-> "none", msg |-> "", pos |-> -1]
Raise(kind, msg, pos) == [kind |-> kind, msg |-> msg, pos |-> pos]
Return(v) == [kind |-> "none", value |-> v]

(* ---- Python integer arithmetic ---- *)

\* Python's a % b: the result takes the sign of the divisor b (b # 0).
PyMod(a, b) == IF b > 0 THEN a % b ELSE -((-a) % (-b))

\* Python's a // b: floor division (b # 0).
PyFloorDiv(a, b) == IF b > 0 THEN a \div b ELSE (-a) \div (-b)

\* Python's b ** e on ints, for e >= 0 (0 ** 0 = 1).
RECURSIVE IntPow(_, _)
IntPow(b, e) == IF e = 0 THEN 1 ELSE b * IntPow(b, e - 1)

(* ---- class Fraction ---- *)

\* mutation of gcd: the magnitude of the common divisor (as math.gcd gives).
RECURSIVE gcd_unsigned(_, _)
gcd_unsigned(a, b) ==
    IF b = 0 THEN (IF a < 0 THEN -a ELSE a) ELSE gcd_unsigned(b, PyMod(a, b))

RECURSIVE gcd(_, _)
gcd(a, b) == IF b = 0 THEN a ELSE gcd(b, PyMod(a, b))

Number(n, d) == [type |-> "Number", numerator |-> n, denominator |-> d]

\* Fraction.__init__: a Return of the constructed Number, or the ValueError.
Fraction(numerator, denominator) ==
    IF denominator = 0
    THEN Raise("ValueError", "Denominator cannot be zero.", -1)
    ELSE LET gcd_value == gcd(numerator, denominator)
         IN  Return(Number(PyFloorDiv(numerator, gcd_value),
                           PyFloorDiv(denominator, gcd_value)))

add_fractions(a, b) ==
    Fraction(a.numerator * b.denominator + b.numerator * a.denominator,
             a.denominator * b.denominator)

subtract_fractions(a, b) ==
    Fraction(a.numerator * b.denominator - b.numerator * a.denominator,
             a.denominator * b.denominator)

multiply_fractions(a, b) ==
    Fraction(a.numerator * b.numerator, a.denominator * b.denominator)

divide_fractions(a, b) ==
    Fraction(a.numerator * b.denominator, a.denominator * b.numerator)

\* int % 0 raises ZeroDivisionError before Fraction is constructed.
modulo_fractions(a, b) ==
    IF a.denominator * b.numerator = 0
    THEN Raise("ZeroDivisionError", "integer modulo by zero", -1)
    ELSE Fraction(PyMod(a.numerator * b.denominator, a.denominator * b.numerator),
                  a.denominator * b.denominator)

\* int ** negative int is a Python float (0 ** negative raises
\* ZeroDivisionError); float-valued Fractions lie outside this integer model
\* and are reported as the outcome kind "float".
power_fractions(a, b) ==
    IF b.numerator < 0
    THEN IF a.numerator = 0
         THEN Raise("ZeroDivisionError", "0.0 cannot be raised to a negative power", -1)
         ELSE Raise("float", "float-valued Fraction", -1)
    ELSE Fraction(IntPow(a.numerator, b.numerator),
                  IntPow(a.denominator, b.denominator))

(* ---- class Braket, class Operator ---- *)

BraketL == [type |-> "Braket", value |-> "("]
BraketR == [type |-> "Braket", value |-> ")"]

Operator(symbol, priority) == [type |-> "Operator", symbol |-> symbol, priority |-> priority]

Add == Operator("+", 0)
Sub == Operator("-", 0)
Mul == Operator("*", 1)
Div == Operator("/", 1)
Mod == Operator("%", 2)
Pow == Operator("^", 3)

\* Operator.Symbols: the registry filled by the six constructions.
Symbols == {Add, Sub, Mul, Div, Mod, Pow}

\* Operator.__call__: dispatch to the evaluator the operator was built with.
Call(op, a, b) ==
    CASE op.symbol = "+" -> add_fractions(a, b)
      [] op.symbol = "-" -> subtract_fractions(a, b)
      [] op.symbol = "*" -> multiply_fractions(a, b)
      [] op.symbol = "/" -> divide_fractions(a, b)
      [] op.symbol = "%" -> modulo_fractions(a, b)
      [] op.symbol = "^" -> power_fractions(a, b)

isNumber(token) == token.type = "Number"
isOperator(token) == token.type = "Operator"

(* ---- tokenize ---- *)

Digits == {"0", "1", "2", "3", "4", "5", "6", "7", "8", "9"}

DigitValue(c) ==
    CASE c = "0" -> 0 [] c = "1" -> 1 [] c = "2" -> 2 [] c = "3" -> 3
      [] c = "4" -> 4 [] c = "5" -> 5 [] c = "6" -> 6 [] c = "7" -> 7
      [] c = "8" -> 8 [] c = "9" -> 9

\* int(''.join(buffer)) on a buffer of digits and points: the decimal value
\* of an all-digit run, ValueError as soon as the run holds a point.
RECURSIVE IntOfDigits(_)
IntOfDigits(buffer) ==
    IF buffer = <<>> THEN 0
    ELSE 10 * IntOfDigits(SubSeq(buffer, 1, Len(buffer) - 1))
         + DigitValue(buffer[Len(buffer)])

ParseInt(buffer) ==
    IF \E k \in 1..Len(buffer) : buffer[k] = "."
    THEN Raise("ValueError", "invalid number", -1)
    ELSE Fraction(IntOfDigits(buffer), 1)

SymbolOf(partial) == CHOOSE op \in Symbols : op.symbol = partial

RECURSIVE tokenizeLoop(_, _, _, _)
tokenizeLoop(text, i, buffer, result) ==
    IF i > Len(text)
    THEN IF buffer # <<>>
         THEN LET n == ParseInt(buffer)
              IN  IF n.kind = "none" THEN Return(Append(result, n.value)) ELSE n
         ELSE Return(result)
    ELSE LET partial == text[i] IN
         IF partial = " " THEN tokenizeLoop(text, i + 1, buffer, result)
         ELSE IF partial \in Digits \cup {"."}
         THEN tokenizeLoop(text, i + 1, Append(buffer, partial), result)
         ELSE LET n == IF buffer # <<>> THEN ParseInt(buffer) ELSE Return(None)
                  flushed == IF buffer # <<>> /\ n.kind = "none"
                             THEN Append(result, n.value) ELSE result
              IN  IF n.kind # "none" THEN n
                  ELSE IF \E op \in Symbols : op.symbol = partial
                  THEN tokenizeLoop(text, i + 1, <<>>, Append(flushed, SymbolOf(partial)))
                  ELSE IF partial \in {"(", ")"}
                  THEN tokenizeLoop(text, i + 1, <<>>,
                                    Append(flushed, [type |-> "Braket", value |-> partial]))
                  ELSE Raise("ValueError", "invalid input", i - 1)

tokenize(text) == tokenizeLoop(text, 1, <<>>, <<>>)

(* ---- prefixing ---- *)

\* list.insert(index, x) for 0 <= index <= len(list).
Insert(list, index, x) ==
    SubSeq(list, 1, index) \o <<x>> \o SubSeq(list, index + 1, Len(list))

\* the test of lines 188-189 on the snapshot, index counted from 0.
isSign(copied, index) ==
    /\ copied[index + 1] \in {Add, Sub}
    /\ (index = 0 \/ ~isNumber(copied[index]))

\* the loop over enumerate(copied): every insertion goes to the snapshot's
\* index, into the list that earlier insertions have already lengthened.
RECURSIVE prefixingLoop(_, _, _)
prefixingLoop(copied, index, list) ==
    IF index >= Len(copied) THEN list
    ELSE prefixingLoop(copied, index + 1,
                       IF isSign(copied, index)
                       THEN Insert(list, index, Number(0, 1))
                       ELSE list)

prefixing(list) == prefixingLoop(list, 0, list)

(* ---- balancing ---- *)

\* mutation of negativeDepth: one unmatched right bracket is tolerated.
negativeDepth_late(stack) == stack < -1

\* line 204: the depth test made after every token.
negativeDepth(stack) == stack < 0

RECURSIVE balancingLoop(_, _, _)
balancingLoop(list, index, stack) ==
    IF index >= Len(list)
    THEN IF stack # 0
         THEN Raise("ValueError", "unbalanced bracket", Len(list))
         ELSE Return(None)
    ELSE LET token == list[index + 1]
             depth == IF token = BraketL THEN stack + 1
                      ELSE IF token = BraketR THEN stack - 1
                      ELSE stack
         IN  IF negativeDepth(depth)
             THEN Raise("ValueError", "unbalanced bracket", index)
             ELSE balancingLoop(list, index + 1, depth)

balancing(list) == balancingLoop(list, 0, 0)

(* ---- shunting ---- *)

Top(stack) == stack[Len(stack)]
Pop(stack) == SubSeq(stack, 1, Len(stack) - 1)

\* mutation of mustPop: an operator of equal priority stays on the stack.
mustPop_strict(stack, token) ==
    /\ stack # <<>>
    /\ Top(stack) # BraketL
    /\ Top(stack).priority > token.priority

\* lines 220-221: the condition of the operator's pop loop.
mustPop(stack, token) ==
    /\ stack # <<>>
    /\ Top(stack) # BraketL
    /\ Top(stack).priority >= token.priority

\* lines 220-223: pop while mustPop, then push the operator.
RECURSIVE pushOperator(_, _, _)
pushOperator(result, stack, token) ==
    IF mustPop(stack, token)
    THEN pushOperator(Append(result, Top(stack)), Pop(stack), token)
    ELSE [result |-> result, stack |-> Append(stack, token)]

\* lines 231-232: pop into the output down to the nearest left bracket.
RECURSIVE popToLeft(_, _)
popToLeft(result, stack) ==
    IF stack # <<>> /\ Top(stack) # BraketL
    THEN popToLeft(Append(result, Top(stack)), Pop(stack))
    ELSE [result |-> result, stack |-> stack]

\* lines 236-237: the stack emptied into the output, top first.
RECURSIVE drain(_, _)
drain(result, stack) ==
    IF stack = <<>> THEN result
    ELSE drain(Append(result, Top(stack)), Pop(stack))

RECURSIVE shuntingLoop(_, _, _, _)
shuntingLoop(list, i, result, stack) ==
    IF i > Len(list) THEN Return(drain(result, stack))
    ELSE LET token == list[i] IN
         IF isNumber(token)
         THEN shuntingLoop(list, i + 1, Append(result, token), stack)
         ELSE IF isOperator(token)
         THEN LET s == pushOperator(result, stack, token)
              IN  shuntingLoop(list, i + 1, s.result, s.stack)
         ELSE IF token = BraketL
         THEN shuntingLoop(list, i + 1, result, Append(stack, token))
         ELSE LET s == popToLeft(result, stack)
              IN  IF s.stack = <<>>
                  THEN Raise("IndexError", "pop from empty list", -1)
                  ELSE shuntingLoop(list, i + 1, s.result, Pop(s.stack))

shunting(list) == shuntingLoop(list, 1, <<>>, <<>>)

(* ---- evaluate ---- *)

\* mutation of reduce: the operands are handed over in popping order.
reduce_swapped(token, stack) ==
    LET x == Top(stack)
        y == Top(Pop(stack))
    IN  Call(token, x, y)

\* lines 263-264: x, y = stack.pop(), stack.pop(); token(y, x).
reduce(token, stack) ==
    LET x == Top(stack)
        y == Top(Pop(stack))
    IN  Call(token, y, x)

RECURSIVE evaluateLoop(_, _, _)
evaluateLoop(list, i, stack) ==
    IF i > Len(list)
    THEN IF stack = <<>>
         THEN Raise("IndexError", "pop from empty list", -1)
         ELSE IF Pop(stack) # <<>>
         THEN Raise("ValueError", "invalid expression with redundant number", -1)
         ELSE Return(Top(stack))
    ELSE LET token == list[i] IN
         IF ~isNumber(token) /\ ~isOperator(token)
         THEN Raise("ValueError", "invalid element exists in RPN", -1)
         ELSE IF isNumber(token)
         THEN evaluateLoop(list, i + 1, Append(stack, token))
         ELSE IF Len(stack) < 2
         THEN Raise("ValueError", "invalid expression during reduce", -1)
         ELSE LET r == reduce(token, stack)
              IN  IF r.kind # "none" THEN r
                  ELSE evaluateLoop(list, i + 1, Append(Pop(Pop(stack)), r.value))

evaluate(list) == evaluateLoop(list, 1, <<>>)

(* ---- the inputs explored ---- *)

SeqsUpTo(S, n) == UNION {[1..k -> S] : k \in 0..n}

\* the characters of the exhaustively enumerated short expressions
Alphabet == {"0", "1", "2", ".", "+", "-", "*", "/", "%", "^", "(", ")", " ", "a"}

\* expressions of the specification and of the tests
SampleExprs == {
    <<"-", "1", " ", "+", " ", "-", "2">>,
    <<"-", "1", " ", "+", " ", "2">>,
    <<"(", "1", " ", "+", " ", "2", ")", " ", "-", " ", "3">>,
    <<"(", "1", " ", "+", " ", "2", ")">>,
    <<"(", "1", " ", "+", " ", "2">>,
    <<"1", ".", "2", " ", "+", " ", "(", "3", ".", "4", " ", "*", " ", "5", ".", "6", ")">>,
    <<"1", ".", "2", ".", "3">>,
    <<"1", " ", "+", " ", "a">>,
    <<"8", " ", "-", " ", "4", " ", "-", " ", "2">>,
    <<"3", " ", "+", " ", "4", " ", "*", " ", "2">>,
    <<"3", "+", "4", "*", "2", "/", "(", "1", "-", "5", ")", "^", "2">>,
    <<"1", " ", "/", " ", "0">>,
    <<"1", "/", "(", "1", "-", "1", ")">>,
    <<"1", "%", "(", "1", "-", "1", ")">>,
    <<"(", "1", "/", "2", ")", "^", "2">>,
    <<"(", "0", "-", "7", ")", "%", "3">>,
    <<"1", "/", "(", "0", "-", "2", ")">>
}

\* a op b op c with one non-commutative operator, in text
ChainDigits == {"0", "1", "2", "3"}
ChainExprs == {<<a, op, b, op, c>> : a \in ChainDigits, b \in ChainDigits,
                                     c \in ChainDigits, op \in {"-", "/", "%", "^"}}

Exprs == SeqsUpTo(Alphabet, MaxExprLen) \cup SampleExprs \cup ChainExprs

\* every Number in lowest terms with |numerator| and denominator <= MaxNum;
\* each is the value of the expression (0 - p) / q or p / q.
Fractions == {Number(n, d) : n \in -MaxNum..MaxNum, d \in 1..MaxNum} \cap
             {f.value : f \in {Fraction(n, d) : n \in -MaxNum..MaxNum, d \in 1..MaxNum}}

TokenAlphabet == {Number(0, 1), Number(1, 1)} \cup Symbols \cup {BraketL, BraketR}

\* bracket-free infix sequences a op1 b op2 c
ChainNumbers == {Number(1, 1), Number(2, 1), Number(3, 1)}
InfixChains == {<<a, op1, b, op2, c>> : a \in ChainNumbers, b \in ChainNumbers,
                                        c \in ChainNumbers, op1 \in Symbols, op2 \in Symbols}

\* postfix sequences a b op over the Numbers in lowest terms
BinaryRPN == {<<a, b, op>> : a \in Fractions, b \in Fractions, op \in Symbols}

TokenLists == SeqsUpTo(TokenAlphabet, MaxTokLen) \cup InfixChains \cup BinaryRPN

\* the functions a caller (the tests) invokes on a token list directly
DirectEntries == {"prefixing", "balancing", "shunting", "evaluate"}

(* ---- the state machine ---- *)

Init ==
    /\ \/ /\ entry = "evaluator"
          /\ pc = "tokenize"
          /\ expr \in Exprs
          /\ tokens = <<>>
       \/ /\ entry \in DirectEntries
          /\ pc = entry
          /\ expr = <<>>
          /\ tokens \in TokenLists
    /\ answer = None
    /\ error = NoError
    /\ given = <<>>
    /\ called = "none"

\* where control goes after a stage returned: the next line of
\* main.evaluator, or back to the direct caller.
After(next) == IF entry = "evaluator" THEN next ELSE "done"

\* main.py line 10: tokens = list(calculator.tokenize(expression))
Tokenize ==
    /\ pc = "tokenize"
    /\ LET r == tokenize(expr) IN
       /\ tokens' = IF r.kind = "none" THEN r.value ELSE tokens
       /\ error' = IF r.kind = "none" THEN NoError ELSE r
       /\ pc' = IF r.kind = "none" THEN After("prefixing") ELSE "failed"
    /\ given' = expr
    /\ called' = "tokenize"
    /\ UNCHANGED <<expr, answer, entry>>

\* main.py line 12: calculator.prefixing(tokens)
Prefixing ==
    /\ pc = "prefixing"
    /\ tokens' = prefixing(tokens)
    /\ pc' = After("balancing")
    /\ given' = tokens
    /\ called' = "prefixing"
    /\ UNCHANGED <<expr, answer, error, entry>>

\* main.py line 13: calculator.balancing(tokens)
Balancing ==
    /\ pc = "balancing"
    /\ LET r == balancing(tokens) IN
       /\ error' = IF r.kind = "none" THEN NoError ELSE r
       /\ pc' = IF r.kind = "none" THEN After("shunting") ELSE "failed"
    /\ given' = tokens
    /\ called' = "balancing"
    /\ UNCHANGED <<expr, tokens, answer, entry>>

\* main.py line 15: tokens = list(calculator.shunting(tokens))
Shunting ==
    /\ pc = "shunting"
    /\ LET r == shunting(tokens) IN
       /\ tokens' = IF r.kind = "none" THEN r.value ELSE tokens
       /\ error' = IF r.kind = "none" THEN NoError ELSE r
       /\ pc' = IF r.kind = "none" THEN After("evaluate") ELSE "failed"
    /\ given' = tokens
    /\ called' = "shunting"
    /\ UNCHANGED <<expr, answer, entry>>

\* main.py line 17: calculator.evaluate(tokens)
Evaluate ==
    /\ pc = "evaluate"
    /\ LET r == evaluate(tokens) IN
       /\ answer' = IF r.kind = "none" THEN r.value ELSE answer
       /\ error' = IF r.kind = "none" THEN NoError ELSE r
       /\ pc' = IF r.kind = "none" THEN "done" ELSE "failed"
    /\ given' = tokens
    /\ called' = "evaluate"
    /\ UNCHANGED <<expr, tokens, entry>>

Next == Tokenize \/ Prefixing \/ Balancing \/ Shunting \/ Evaluate

Spec == Init /\ [][Next]_vars

TypeOK ==
    /\ pc \in {"tokenize", "prefixing", "balancing", "shunting", "evaluate", "done", "failed"}
    /\ error.kind \in {"none", "ValueError", "ZeroDivisionError", "IndexError", "float"}
    /\ (pc = "failed") = (error.kind # "none")

(* ======================================================================= *)
(* Properties                                                              *)
(* ======================================================================= *)

Range(list) == {list[k] : k \in 1..Len(list)}
Count(list, x) == Cardinality({k \in 1..Len(list) : list[k] = x})

\* a sign is unary by the test the code makes (position 0, or no Number before)
RECURSIVE ZeroBeforeSigns(_, _)
ZeroBeforeSigns(list, index) ==
    IF index >= Len(list) THEN <<>>
    ELSE (IF isSign(list, index) THEN <<Number(0, 1)>> ELSE <<>>)
         \o <<list[index + 1]>> \o ZeroBeforeSigns(list, index + 1)

SignIndexes(list) == {index \in 0..(Len(list) - 1) : isSign(list, index)}

\* C1: after prefixing, every +/- that was unary in the original sequence is
\* directly preceded by an inserted Number(0) and nothing else has moved: the
\* result is the original sequence with one zero put immediately before each
\* unary sign, also when there are two or more unary signs.
C1_ZeroDirectlyBeforeEachSign ==
    called = "prefixing" => tokens = ZeroBeforeSigns(given, 0)

(* ---- C2 ---- *)

PointIndexes(text) == {k \in 1..Len(text) : text[k] = "."}

\* digits around exactly one decimal point, a digit on both sides
isDecimalLiteral(text) ==
    /\ Len(text) >= 3
    /\ \A k \in 1..Len(text) : text[k] \in Digits \cup {"."}
    /\ Cardinality(PointIndexes(text)) = 1
    /\ text[1] # "." /\ text[Len(text)] # "."

\* the value of a decimal literal as a Number in lowest terms
DecimalValue(text) ==
    LET p == CHOOSE k \in PointIndexes(text) : TRUE
        digits == SubSeq(text, 1, p - 1) \o SubSeq(text, p + 1, Len(text))
    IN  Fraction(IntOfDigits(digits), IntPow(10, Len(text) - p)).value

isMalformedLiteral(text) ==
    /\ \A k \in 1..Len(text) : text[k] \in Digits \cup {"."}
    /\ Cardinality(PointIndexes(text)) >= 2

\* C2: tokenize turns a literal of digits with a single decimal point into
\* one Number of that decimal value and does not raise the invalid-number
\* error; a run with two decimal points raises it.
C2_DecimalLiteralAccepted ==
    called = "tokenize" =>
        /\ isDecimalLiteral(given) =>
              /\ error.kind = "none"
              /\ tokens = <<DecimalValue(given)>>
        /\ isMalformedLiteral(given) =>
              /\ error.kind = "ValueError"
              /\ error.msg = "invalid number"

(* ---- C3 ---- *)

\* the operand count after a postfix sequence of Numbers and Operators, or
\* -1 when an operator is met with fewer than two operands
RECURSIVE OperandCount(_, _, _)
OperandCount(list, i, n) ==
    IF i > Len(list) THEN n
    ELSE IF isNumber(list[i]) THEN OperandCount(list, i + 1, n + 1)
    ELSE IF n < 2 THEN -1
    ELSE OperandCount(list, i + 1, n - 1)

ArithmeticFaults == {"Denominator cannot be zero.", "integer modulo by zero",
                     "0.0 cannot be raised to a negative power", "float-valued Fraction"}

\* C3: on a postfix sequence whose operators all produce a result, evaluate
\* raises ValueError when an operator finds fewer than two operands, when the
\* final stack is empty (the empty sequence included) and when more than one
\* value remains; in every other case it returns one Number.
C3_MalformedIsValueError ==
    (/\ called = "evaluate"
     /\ \A k \in 1..Len(given) : isNumber(given[k]) \/ isOperator(given[k])
     /\ error.msg \notin ArithmeticFaults)
    => IF OperandCount(given, 1, 0) = 1
       THEN error.kind = "none" /\ isNumber(answer)
       ELSE error.kind = "ValueError"

(* ---- C4 ---- *)

\* C4: when the evaluation function of / or % has no result because the
\* right operand is zero, evaluate raises a ValueError, never a
\* ZeroDivisionError, wherever in the expression the zero divisor arises.
C4_ZeroDivisorIsValueError ==
    (/\ called = "evaluate"
     /\ error.msg \in {"Denominator cannot be zero.", "integer modulo by zero"})
    => error.kind = "ValueError"

(* ---- C5 ---- *)

\* the rule of the specification: unary at position 0, or after a token that
\* is neither a Number nor a closing bracket
isUnaryByRule(list, index) ==
    /\ list[index + 1] \in {Add, Sub}
    /\ (index = 0 \/ (~isNumber(list[index]) /\ list[index] # BraketR))

BracketMinus == <<"(", "1", " ", "+", " ", "2", ")", " ", "-", " ", "3">>

\* C5: prefixing inserts one zero for each +/- that is at position 0 or
\* follows a token that is neither a Number nor a closing bracket, and none
\* for any other token; the pipeline on "(1 + 2) - 3" returns 0.
C5_SignAfterClosingBracketIsBinary ==
    /\ called = "prefixing" =>
          Len(tokens) = Len(given)
              + Cardinality({index \in 0..(Len(given) - 1) : isUnaryByRule(given, index)})
    /\ (entry = "evaluator" /\ expr = BracketMinus /\ pc \in {"done", "failed"}) =>
          (pc = "done" /\ answer = Number(0, 1))

(* ---- C6 ---- *)

\* the precedence ranks of the specification
Rank(op) ==
    CASE op.symbol \in {"+", "-"} -> 0
      [] op.symbol \in {"*", "/"} -> 1
      [] op.symbol = "%" -> 2
      [] op.symbol = "^" -> 3

isInfixChain(list) ==
    /\ Len(list) = 5
    /\ isNumber(list[1]) /\ isOperator(list[2]) /\ isNumber(list[3])
    /\ isOperator(list[4]) /\ isNumber(list[5])

\* brackets minus closing brackets among the first k tokens
DepthAt(list, k) ==
    Cardinality({j \in 1..k : list[j] = BraketL})
        - Cardinality({j \in 1..k : list[j] = BraketR})

WellNested(list) ==
    /\ \A k \in 1..Len(list) : DepthAt(list, k) >= 0
    /\ DepthAt(list, Len(list)) = 0

isBraket(token) == token.type = "Braket"
notBraket(token) == token.type # "Braket"

\* C6: shunting turns a op1 b op2 c into [a, b, c, op2, op1] when op2 has
\* the strictly higher rank and into [a, b, op1, c, op2] otherwise; for a
\* bracket-balanced input the output has no bracket, holds every Number and
\* Operator of the input exactly once and keeps the Numbers in input order.
C6_ShuntingOrdersByRank ==
    called = "shunting" =>
        /\ isInfixChain(given) =>
              /\ error.kind = "none"
              /\ tokens = IF Rank(given[4]) > Rank(given[2])
                          THEN <<given[1], given[3], given[5], given[4], given[2]>>
                          ELSE <<given[1], given[3], given[2], given[5], given[4]>>
        /\ WellNested(given) =>
              /\ error.kind = "none"
              /\ \A k \in 1..Len(tokens) : notBraket(tokens[k])
              /\ Len(tokens) = Len(SelectSeq(given, notBraket))
              /\ \A t \in Range(given) : notBraket(t) => Count(tokens, t) = Count(given, t)
              /\ SelectSeq(tokens, isNumber) = SelectSeq(given, isNumber)

PlusTimes == <<"3", " ", "+", " ", "4", " ", "*", " ", "2">>

C6_Witness ==
    /\ called = "shunting"
    /\ expr = PlusTimes
    /\ given = <<Number(3, 1), Add, Number(4, 1), Mul, Number(2, 1)>>
    /\ tokens = <<Number(3, 1), Number(4, 1), Number(2, 1), Mul, Add>>

(* ---- C7 ---- *)

NonCommutative == {Sub, Div, Mod, Pow}

isNatural(x) == x.denominator = 1 /\ x.numerator >= 0

\* r is the value n / d
Equals(r, n, d) == d # 0 /\ isNumber(r) /\ r.numerator * d = n * r.denominator

\* a op b on natural numbers, the left operand first
NaturalResult(r, op, a, b) ==
    CASE op = Sub -> r = Number(a - b, 1)
      [] op = Div -> Equals(r, a, b)
      [] op = Mod -> b # 0 /\ r = Number(a % b, 1)
      [] op = Pow -> r = Number(IntPow(a, b), 1)

\* (a op b) op c on natural numbers
ChainResult(r, op, a, b, c) ==
    CASE op = Sub -> r = Number((a - b) - c, 1)
      [] op = Div -> Equals(r, a, b * c)
      [] op = Mod -> b # 0 /\ c # 0 /\ r = Number((a % b) % c, 1)
      [] op = Pow -> r = Number(IntPow(IntPow(a, b), c), 1)

EightFourTwo == <<"8", " ", "-", " ", "4", " ", "-", " ", "2">>

\* C7: evaluate on [a, b, op] applies the operator with a, the second
\* operand popped, on the left and b on the right, and the pipeline on
\* a op b op c with one non-commutative operator returns (a op b) op c;
\* "8 - 4 - 2" gives 2.
C7_LeftOperandFirst ==
    /\ (/\ called = "evaluate" /\ entry = "evaluate" /\ Len(given) = 3
        /\ isNumber(given[1]) /\ isNumber(given[2]) /\ given[3] \in NonCommutative) =>
          LET a == given[1]
              b == given[2]
              r == Call(given[3], a, b)
          IN  /\ error.kind = r.kind
              /\ pc = "done" => answer = r.value
              /\ (pc = "done" /\ isNatural(a) /\ isNatural(b)) =>
                    NaturalResult(answer, given[3], a.numerator, b.numerator)
    /\ (called = "evaluate" /\ expr \in ChainExprs /\ pc = "done") =>
          ChainResult(answer, SymbolOf(expr[2]),
                      DigitValue(expr[1]), DigitValue(expr[3]), DigitValue(expr[5]))
    /\ (called = "evaluate" /\ expr = EightFourTwo) =>
          (pc = "done" /\ answer = Number(2, 1))

C7_Witness ==
    /\ called = "evaluate"
    /\ expr = EightFourTwo
    /\ given = <<Number(8, 1), Number(4, 1), Sub, Number(2, 1), Sub>>
    /\ answer = Number(2, 1)

(* ---- C8 ---- *)

NegativeAt(list) == {k \in 1..Len(list) : DepthAt(list, k) < 0}
Min(S) == CHOOSE x \in S : \A y \in S : x <= y

\* C8: balancing returns exactly when the brackets are well nested; otherwise
\* it raises the unbalanced-bracket ValueError at the first index where the
\* depth is negative, or at the sequence length when left brackets stay
\* open; the token sequence is the same afterwards.
C8_BalancingIffWellNested ==
    called = "balancing" =>
        /\ tokens = given
        /\ (error.kind = "none") = WellNested(given)
        /\ ~WellNested(given) =>
              /\ error.kind = "ValueError"
              /\ error.msg = "unbalanced bracket"
              /\ error.pos = IF NegativeAt(given) # {}
                             THEN Min(NegativeAt(given)) - 1
                             ELSE Len(given)

C8_Witness ==
    /\ called = "balancing"
    /\ error.kind = "ValueError"
    /\ BraketL \in Range(given)
    /\ error.pos > 0
    /\ error.pos < Len(given)

(* ---- C9 ---- *)

LowestTerms(x) ==
    /\ x.denominator > 0
    /\ ~\E k \in 2..x.denominator :
          x.numerator % k = 0 /\ x.denominator % k = 0

RECURSIVE RepeatMul(_, _)
RepeatMul(x, n) ==
    IF n = 0 THEN Number(1, 1) ELSE multiply_fractions(RepeatMul(x, n - 1), x).value

\* C10: (p/q) ^ n for an integer n >= 0 is p^n / q^n in lowest terms, the
\* value of n-fold multiplication with *.
C10_PowerOfRational ==
    (/\ called = "evaluate" /\ Len(given) = 3
     /\ isNumber(given[1]) /\ isNumber(given[2]) /\ given[3] = Pow
     /\ isNatural(given[2])) =>
        LET n == given[2].numerator IN
        /\ pc = "done"
        /\ Equals(answer, IntPow(given[1].numerator, n), IntPow(given[1].denominator, n))
        /\ answer = RepeatMul(given[1], n)

====
